---- MODULE Spec2Model ----
(***************************************************************************)
(* A model of skosclient's extraction engine (skosclient/extractor.py and  *)
(* skosclient/utils.py): SKOSExtractor.extract over an in-memory triple    *)
(* store, the per-language concept builder, the relation symmetrizer and   *)
(* the label index.  Python strings are sequences of one-character         *)
(* strings, so that prefixes, splitting, trimming and suffixing are        *)
(* computed as the code computes them.                                     *)
(***************************************************************************)
EXTENDS Integers, Sequences, FiniteSets, TLC

VARIABLES
    input_file,             \* the file at input_file: whether it exists, the formats it parses under
    file_format,            \* the file_format argument of extract
    loaded,                 \* what _load_graph has come to: the format parsed, "None", or the exception
    calls,                  \* the number of extract calls made on the extractor
    graph,                  \* the triples of the input file (self.graph once loaded), in iteration order
    base_uri,               \* SKOSExtractor.base_uri
    languages,              \* detect_languages(graph), once detected
    lang_pos,               \* index in languages of the language being processed
    subj_pos,               \* position in graph.subjects(predicate=prefLabel)
    concepts,               \* _process_language: concepts (id -> record)
    concept_ids,            \* key order of the concepts dict
    labels_to_concept,      \* _process_language: labels_to_concept
    relations_added,        \* relations_added of the language being processed
    total_relations_added,  \* extract: total_relations_added
    metadata,               \* extract: metadata
    files,                  \* the per-language files written so far
    warnings,               \* result.warnings
    pc,                     \* position of extract
    labels_dict,            \* a label index under direct insertion
    hist                    \* the insertions made into labels_dict, in order

vars == <<input_file, file_format, loaded, calls, graph, base_uri, languages,
          lang_pos, subj_pos, concepts, concept_ids, labels_to_concept,
          relations_added, total_relations_added, metadata, files, warnings, pc,
          labels_dict, hist>>

\* the arguments of the extract call in hand
callVars == <<input_file, file_format, calls>>

extractVars == <<input_file, file_format, loaded, calls, graph, base_uri, languages,
                 lang_pos, subj_pos, concepts, concept_ids, labels_to_concept,
                 relations_added, total_relations_added, metadata, files,
                 warnings, pc>>

indexVars == <<labels_dict, hist,
                   callVars, loaded, metadata>>

----------------------------------------------------------------------------
(* Bounds of the model *)

MaxEdges == 3       \* relation triples (and prefLabel triples of c) in a relation graph
MaxLits == 3        \* literal triples in a label graph
MaxInserts == 4     \* direct insertions into a label index
MaxUriTriples == 3  \* triples in a URI-scheme graph
MaxMeta == 2        \* metadata triples of the schemes in a scheme graph
MaxSubjects == 3    \* preferred-label triples in a store given to detect_base_uri
MaxCalls == 2       \* extract calls on one extractor

----------------------------------------------------------------------------
(* Python values *)

None == <<"None">>      \* None where a string is expected
NoLang == None          \* Literal.language of an untagged literal

Range(f) == {f[i] : i \in DOMAIN f}

Reverse(s) == [i \in 1..Len(s) |-> s[Len(s) + 1 - i]]

\* the characters used, in code point order
Alphabet == <<" ", "#", ",", "/", "0", "1", "2", "3", "4", "5", "6", "7", "8", "9",
              ":", "A", "B", "C", "N", "X", "Y", "Z", "_", "a", "b", "c", "e", "f",
              "g", "h", "i", "l", "m", "n", "o", "p", "r", "s", "t", "u", "z">>

CharOrd(ch) == CHOOSE i \in 1..Len(Alphabet) : Alphabet[i] = ch

\* str.startswith
StartsWith(s, p) == Len(p) <= Len(s) /\ SubSeq(s, 1, Len(p)) = p

\* str.endswith
EndsWith(s, p) == Len(p) <= Len(s) /\ SubSeq(s, Len(s) - Len(p) + 1, Len(s)) = p

\* str.rfind of one character: the last 0-based position, or -1
RFind(s, ch) ==
    LET hits == {i \in 1..Len(s) : s[i] = ch}
    IN  IF hits = {} THEN -1
        ELSE (CHOOSE i \in hits : \A j \in hits : j <= i) - 1

\* ch in s
Contains(s, ch) == \E i \in 1..Len(s) : s[i] = ch

RECURSIVE SplitFrom(_, _, _, _, _)
SplitFrom(s, ch, i, cur, acc) ==
    IF i > Len(s) THEN Append(acc, cur)
    ELSE IF s[i] = ch THEN SplitFrom(s, ch, i + 1, <<>>, Append(acc, cur))
    ELSE SplitFrom(s, ch, i + 1, Append(cur, s[i]), acc)

\* str.split(ch)
Split(s, ch) == SplitFrom(s, ch, 1, <<>>, <<>>)

RECURSIVE Join(_, _)
\* ch.join(parts)
Join(parts, ch) ==
    IF Len(parts) = 0 THEN <<>>
    ELSE IF Len(parts) = 1 THEN parts[1]
    ELSE parts[1] \o <<ch>> \o Join(Tail(parts), ch)

Whitespace == {" "}

RECURSIVE LStrip(_)
LStrip(s) == IF Len(s) > 0 /\ s[1] \in Whitespace THEN LStrip(Tail(s)) ELSE s

RECURSIVE RStrip(_)
RStrip(s) ==
    IF Len(s) > 0 /\ s[Len(s)] \in Whitespace THEN RStrip(SubSeq(s, 1, Len(s) - 1)) ELSE s

\* str.strip()
Strip(s) == RStrip(LStrip(s))

Digits == <<"0", "1", "2", "3", "4", "5", "6", "7", "8", "9">>

RECURSIVE IntToStr(_)
\* the decimal form of a natural number, as an f-string writes it
IntToStr(n) ==
    IF n < 10 THEN <<Digits[n + 1]>>
    ELSE IntToStr(n \div 10) \o <<Digits[(n % 10) + 1]>>

\* str.isdigit, for the characters of the model
IsDigit(s) == Len(s) > 0 /\ \A i \in 1..Len(s) : s[i] \in Range(Digits)

\* s < t for Python strings
RECURSIVE StrLess(_, _)
StrLess(s, t) ==
    IF Len(t) = 0 THEN FALSE
    ELSE IF Len(s) = 0 THEN TRUE
    ELSE IF s[1] = t[1] THEN StrLess(Tail(s), Tail(t))
    ELSE CharOrd(s[1]) < CharOrd(t[1])

\* sorted(list(S)) for a set of strings
Sorted(S) ==
    CHOOSE q \in [1..Cardinality(S) -> S] :
        /\ Range(q) = S
        /\ \A i \in 1..(Cardinality(S) - 1) : StrLess(q[i], q[i + 1])

----------------------------------------------------------------------------
(* The triple store: rdflib terms, triples and lookups *)

Lit(text, lang) == [kind |-> "Literal", text |-> text, lang |-> lang]
Ref(uri) == [kind |-> "URIRef", text |-> uri, lang |-> NoLang]
Triple(s, p, o) == [s |-> s, p |-> p, o |-> o]

\* isinstance(o, Literal)
IsLiteral(o) == o.kind = "Literal"

\* graph.objects(s, p), in store order
Objects(g, s, p) ==
    LET Match(t) == t.s = s /\ t.p = p
        hits == SelectSeq(g, Match)
    IN  [i \in 1..Len(hits) |-> hits[i].o]

\* graph.subjects(predicate=p): one subject per matching triple, in store order
Subjects(g, p) ==
    LET Match(t) == t.p = p
        hits == SelectSeq(g, Match)
    IN  [i \in 1..Len(hits) |-> hits[i].s]

\* the index of the first element of a sequence of terms that satisfies Test, or 0
FirstIndex(objs, Test(_)) ==
    LET hits == {i \in 1..Len(objs) : Test(objs[i])}
    IN  IF hits = {} THEN 0 ELSE CHOOSE i \in hits : \A j \in hits : i <= j

EN == <<"e", "n">>
IT == <<"i", "t">>

\* utils.detect_languages
detect_languages(g) ==
    LET found == {g[i].o.lang : i \in {j \in 1..Len(g) :
                        IsLiteral(g[j].o) /\ g[j].o.lang # None /\ g[j].o.lang # <<>>}}
    IN  Sorted(found)

DefaultBaseUri ==
    <<"h","t","t","p",":","/","/","e","x","a","m","p","l","e",".","o","r","g","/",
      "t","h","e","s","a","u","r","u","s","/">>

RECURSIVE ShrinkToPrefix(_, _)
\* while not uri.startswith(common_prefix): common_prefix = common_prefix[:-1]
ShrinkToPrefix(uri, common_prefix) ==
    IF StartsWith(uri, common_prefix) THEN common_prefix
    ELSE ShrinkToPrefix(uri, SubSeq(common_prefix, 1, Len(common_prefix) - 1))

RECURSIVE CommonPrefix(_, _)
\* the loop over uri_strings[1:]
CommonPrefix(uri_strings, common_prefix) ==
    IF Len(uri_strings) = 0 THEN common_prefix
    ELSE CommonPrefix(Tail(uri_strings), ShrinkToPrefix(uri_strings[1], common_prefix))

\* utils.detect_base_uri
detect_base_uri(g) ==
    LET uri_strings == Subjects(g, "prefLabel")
    IN  IF Len(uri_strings) = 0 THEN DefaultBaseUri
        ELSE IF Len(uri_strings) = 1 THEN
            LET parts == Split(uri_strings[1], "/")
            IN  Join(SubSeq(parts, 1, Len(parts) - 1), "/") \o <<"/">>
        ELSE
            LET common_prefix == CommonPrefix(Tail(uri_strings), uri_strings[1])
                last_slash == RFind(common_prefix, "/")
            IN  IF ~(EndsWith(common_prefix, <<"/">>) \/ EndsWith(common_prefix, <<"#">>))
                   /\ last_slash > 0
                THEN SubSeq(common_prefix, 1, last_slash + 1)
                ELSE common_prefix

----------------------------------------------------------------------------
(* SKOSExtractor utility methods *)

\* SKOSExtractor._uri_to_id
uri_to_id(uri_str, base) ==
    IF StartsWith(uri_str, base) THEN SubSeq(uri_str, Len(base) + 1, Len(uri_str))
    ELSE uri_str

\* SKOSExtractor._id_to_uri
id_to_uri(concept_id, base) ==
    IF \/ StartsWith(concept_id, <<"h","t","t","p",":","/","/">>)
       \/ StartsWith(concept_id, <<"h","t","t","p","s",":","/","/">>)
       \/ StartsWith(concept_id, <<"u","r","n",":">>)
    THEN concept_id
    ELSE base \o concept_id

\* PrefLabelIndex with the first two tiers in the other order: an untagged
\* literal is preferred to one tagged with the language
PrefLabelIndex_UntaggedFirst(objs, lang) ==
    LET Tagged(o) == IsLiteral(o) /\ o.lang = lang
        Untagged(o) == IsLiteral(o) /\ o.lang = None
        first == FirstIndex(objs, Untagged)
        second == FirstIndex(objs, Tagged)
    IN  IF first # 0 THEN first
        ELSE IF second # 0 THEN second
        ELSE FirstIndex(objs, IsLiteral)

\* the three tiers shared by _extract_labels and _get_pref_label: the index in
\* objs of the preferred label chosen for lang, or 0
PrefLabelIndex(objs, lang) ==
    LET Tagged(o) == IsLiteral(o) /\ o.lang = lang
        Untagged(o) == IsLiteral(o) /\ o.lang = None
        first == FirstIndex(objs, Tagged)
        second == FirstIndex(objs, Untagged)
    IN  IF first # 0 THEN first
        ELSE IF second # 0 THEN second
        ELSE FirstIndex(objs, IsLiteral)

\* SKOSExtractor._get_pref_label
get_pref_label(g, uri, lang) ==
    LET objs == Objects(g, uri, "prefLabel")
        i == PrefLabelIndex(objs, lang)
    IN  IF i = 0 THEN None ELSE objs[i].text

RECURSIVE AddLabelLoop_NoReuse(_, _, _, _, _)
\* AddLabelLoop without the test for the key's own concept: every key found
\* in the index counts as a collision
AddLabelLoop_NoReuse(original_label, label, counter, concept_id, dict) ==
    IF label \in DOMAIN dict THEN
        AddLabelLoop_NoReuse(original_label,
                             original_label \o <<"_">> \o IntToStr(counter + 1),
                             counter + 1, concept_id, dict)
    ELSE [dict |-> dict @@ (label :> concept_id), key |-> label]

RECURSIVE AddLabelLoop(_, _, _, _, _)
\* the while loop of _add_label_to_concept
AddLabelLoop(original_label, label, counter, concept_id, dict) ==
    IF label \in DOMAIN dict THEN
        IF dict[label] = concept_id THEN [dict |-> dict, key |-> label]
        ELSE AddLabelLoop(original_label,
                          original_label \o <<"_">> \o IntToStr(counter + 1),
                          counter + 1, concept_id, dict)
    ELSE [dict |-> dict @@ (label :> concept_id), key |-> label]

\* add_label_to_concept that assigns the key whoever holds it
add_label_to_concept_Overwrite(label, concept_id, dict) ==
    [dict |-> [x \in (DOMAIN dict) \cup {label} |-> IF x = label THEN concept_id ELSE dict[x]],
     key |-> label]

\* SKOSExtractor._add_label_to_concept: the index afterwards and the key returned
add_label_to_concept(label, concept_id, dict) ==
    AddLabelLoop(label, label, 1, concept_id, dict)

RECURSIVE AddLabels(_, _, _, _)
\* the loop of _process_comma_separated_labels over individual_labels
AddLabels(typeLabel, individual_labels, concept_id, dict) ==
    IF Len(individual_labels) = 0 THEN dict
    ELSE LET individual_label == individual_labels[1]
             next == IF Len(individual_label) > 0
                     THEN add_label_to_concept(<<typeLabel>> \o individual_label,
                                               concept_id, dict).dict
                     ELSE dict
         IN  AddLabels(typeLabel, Tail(individual_labels), concept_id, next)

\* process_comma_separated_labels that inserts every label whole
process_comma_separated_labels_NoSplit(label_str, concept_id, dict) ==
    add_label_to_concept(label_str, concept_id, dict).dict

\* SKOSExtractor._process_comma_separated_labels
process_comma_separated_labels(label_str, concept_id, dict) ==
    IF Contains(label_str, ",") THEN
        LET typeLabel == label_str[1]
            parts == Split(Tail(label_str), ",")
            individual_labels == [i \in 1..Len(parts) |-> Strip(parts[i])]
        IN  AddLabels(typeLabel, individual_labels, concept_id, dict)
    ELSE add_label_to_concept(label_str, concept_id, dict).dict


----------------------------------------------------------------------------
(* The per-language concept builder *)

\* _process_language: the record a concept starts from
NewConcept ==
    [prefLabel |-> None, broaderConcept |-> {}, narrowerConcept |-> {},
     related |-> {}, altLabel |-> {}, definition |-> {}, note |-> {},
     scopeNote |-> {}, historyNote |-> {}, example |-> {}, editorialNote |-> {}]

\* _extract_notes: note_mappings (the predicate and the field have the same name)
NoteFields ==
    <<"definition", "note", "scopeNote", "historyNote", "example", "editorialNote">>

RelationFields == <<"broaderConcept", "narrowerConcept", "related">>

\* del d[k]
Remove(d, k) == [x \in (DOMAIN d) \ {k} |-> d[x]]

\* LabelAdmitted that admits only the labels tagged with the language
LabelAdmitted_TaggedOnly(o, lang) == IsLiteral(o) /\ o.lang = lang

\* _extract_labels: the test that admits an alternate or hidden label
LabelAdmitted(o, lang) == IsLiteral(o) /\ (o.lang = lang \/ o.lang = None)

\* NoteAdmitted that admits the literals of every language
NoteAdmitted_AnyLanguage(o, lang) == IsLiteral(o)

\* _extract_notes: the test that admits a note
NoteAdmitted(o, lang) == IsLiteral(o) /\ (o.lang = lang \/ o.lang = None)

RECURSIVE ExtractLabelType(_, _, _, _, _)
\* _extract_labels: the loop over the objects of one label_type;
\* st = [alt |-> the concept's altLabel set, labels |-> the label index]
ExtractLabelType(objs, label_type, concept_id, lang, st) ==
    IF Len(objs) = 0 THEN st
    ELSE LET o == objs[1]
             next ==
                 IF LabelAdmitted(o, lang) THEN
                     IF label_type = "altLabel"
                     THEN [alt |-> st.alt \cup {o.text},
                           labels |-> process_comma_separated_labels(
                                          <<"a">> \o o.text, concept_id, st.labels)]
                     ELSE [alt |-> st.alt,
                           labels |-> process_comma_separated_labels(
                                          <<"h">> \o o.text, concept_id, st.labels)]
                 ELSE st
         IN  ExtractLabelType(Tail(objs), label_type, concept_id, lang, next)

\* extract_labels without the fallback to a literal of any language: a
\* concept with no preferred label tagged lang or untagged is dropped
extract_labels_NoFallback(g, uri, concept_id, lang, cs, labels) ==
    LET objs == Objects(g, uri, "prefLabel")
        Tagged(o) == IsLiteral(o) /\ o.lang = lang
        Untagged(o) == IsLiteral(o) /\ o.lang = None
        i == IF FirstIndex(objs, Tagged) # 0 THEN FirstIndex(objs, Tagged)
             ELSE FirstIndex(objs, Untagged)
    IN  IF i = 0 THEN [cs |-> Remove(cs, concept_id), labels |-> labels]
        ELSE
            LET label_str == objs[i].text
                labels1 == add_label_to_concept(<<"p">> \o label_str, concept_id, labels).dict
                st1 == ExtractLabelType(Objects(g, uri, "altLabel"), "altLabel",
                                        concept_id, lang,
                                        [alt |-> cs[concept_id].altLabel, labels |-> labels1])
                st2 == ExtractLabelType(Objects(g, uri, "hiddenLabel"), "hiddenLabel",
                                        concept_id, lang, st1)
            IN  [cs |-> [cs EXCEPT ![concept_id].prefLabel = label_str,
                                   ![concept_id].altLabel = st2.alt],
                 labels |-> st2.labels]

\* SKOSExtractor._extract_labels
extract_labels(g, uri, concept_id, lang, cs, labels) ==
    LET objs == Objects(g, uri, "prefLabel")
        i == PrefLabelIndex(objs, lang)
    IN  IF i = 0 THEN [cs |-> Remove(cs, concept_id), labels |-> labels]
        ELSE
            LET label_str == objs[i].text
                labels1 == add_label_to_concept(<<"p">> \o label_str, concept_id, labels).dict
                st1 == ExtractLabelType(Objects(g, uri, "altLabel"), "altLabel",
                                        concept_id, lang,
                                        [alt |-> cs[concept_id].altLabel, labels |-> labels1])
                st2 == ExtractLabelType(Objects(g, uri, "hiddenLabel"), "hiddenLabel",
                                        concept_id, lang, st1)
            IN  [cs |-> [cs EXCEPT ![concept_id].prefLabel = label_str,
                                   ![concept_id].altLabel = st2.alt],
                 labels |-> st2.labels]

\* the ids of the objects of one relation predicate
RelationIds(g, uri, p, base) ==
    LET objs == Objects(g, uri, p)
    IN  {uri_to_id(objs[i].text, base) : i \in 1..Len(objs)}

\* SKOSExtractor._extract_relations; err: concepts[concept_id] raised KeyError
extract_relations(g, uri, concept_id, base, cs) ==
    LET b == RelationIds(g, uri, "broader", base)
        n == RelationIds(g, uri, "narrower", base)
        r == RelationIds(g, uri, "related", base)
    IN  IF concept_id \notin DOMAIN cs
        THEN [cs |-> cs, err |-> (b \cup n \cup r) # {}]
        ELSE [cs |-> [cs EXCEPT ![concept_id].broaderConcept = @ \cup b,
                                ![concept_id].narrowerConcept = @ \cup n,
                                ![concept_id].related = @ \cup r],
              err |-> FALSE]

\* the values _extract_notes adds to one field
NoteValues(g, uri, field_name, lang) ==
    LET objs == Objects(g, uri, field_name)
    IN  {objs[i].text : i \in {j \in 1..Len(objs) : NoteAdmitted(objs[j], lang)}}

\* SKOSExtractor._extract_notes; err: concepts[concept_id] raised KeyError
extract_notes(g, uri, concept_id, lang, cs) ==
    IF concept_id \notin DOMAIN cs
    THEN [cs |-> cs,
          err |-> \E k \in 1..Len(NoteFields) : NoteValues(g, uri, NoteFields[k], lang) # {}]
    ELSE [cs |-> [cs EXCEPT ![concept_id] =
                     [f \in DOMAIN @ |->
                        IF f \in Range(NoteFields)
                        THEN @[f] \cup NoteValues(g, uri, f, lang)
                        ELSE @[f]]],
          err |-> FALSE]

\* _finalize_concepts and _ensure_symmetric_relations: the entry {label: id}
\* made for a relation target
RelationEntry(g, base, rel_id, lang) ==
    LET pref_label == get_pref_label(g, id_to_uri(rel_id, base), lang)
    IN  IF pref_label # None /\ pref_label # <<>>
        THEN [label |-> pref_label, id |-> rel_id]
        ELSE [label |-> rel_id, id |-> rel_id]

\* SKOSExtractor._finalize_concepts; order: the order in which the sets of
\* relation ids are iterated
finalize_concepts(g, base, lang, cs, order) ==
    [concept_id \in DOMAIN cs |->
        [f \in DOMAIN cs[concept_id] |->
            IF f = "prefLabel" THEN cs[concept_id][f]
            ELSE IF f \in Range(RelationFields) THEN
                LET Member(rel_id) == rel_id \in cs[concept_id][f]
                    ids == SelectSeq(order, Member)
                IN  [i \in 1..Len(ids) |-> RelationEntry(g, base, ids[i], lang)]
            ELSE Sorted(cs[concept_id][f])]]

----------------------------------------------------------------------------
(* The relation symmetrizer; st = [cs |-> concepts, ra |-> relations_added] *)

\* list(relation.values())[0]
TargetId(relation) == relation.id

\* SymBroaderEntry with the synthetic entry appended to the wrong list: the
\* narrower list of the concept itself instead of that of its broader concept
SymBroaderEntry_OwnList(g, base, lang, st, concept_id, broader_id) ==
    IF broader_id \in DOMAIN st.cs THEN
        LET narrower == st.cs[broader_id].narrowerConcept
            narrower_found == \E k \in 1..Len(narrower) : narrower[k].id = concept_id
        IN  IF ~narrower_found
            THEN [cs |-> [st.cs EXCEPT ![concept_id].narrowerConcept =
                              Append(@, RelationEntry(g, base, concept_id, lang))],
                  ra |-> [st.ra EXCEPT !.narrower_from_broader = @ + 1]]
            ELSE st
    ELSE st

\* _ensure_symmetric_relations: the body of the loop over data["broaderConcept"]
SymBroaderEntry(g, base, lang, st, concept_id, broader_id) ==
    IF broader_id \in DOMAIN st.cs THEN
        LET narrower == st.cs[broader_id].narrowerConcept
            narrower_found == \E k \in 1..Len(narrower) : TargetId(narrower[k]) = concept_id
        IN  IF ~narrower_found
            THEN [cs |-> [st.cs EXCEPT ![broader_id].narrowerConcept =
                              Append(@, RelationEntry(g, base, concept_id, lang))],
                  ra |-> [st.ra EXCEPT !.narrower_from_broader = @ + 1]]
            ELSE st
    ELSE st

\* SymRelatedEntry that looks for the inverse entry in the list it iterates
\* (the concept's own related list) instead of the target's
SymRelatedEntry_OwnList(g, base, lang, st, concept_id, related_id) ==
    IF related_id \in DOMAIN st.cs THEN
        LET related == st.cs[concept_id].related
            related_found == \E k \in 1..Len(related) : related[k].id = related_id
        IN  IF ~related_found
            THEN [cs |-> [st.cs EXCEPT ![related_id].related =
                              Append(@, RelationEntry(g, base, concept_id, lang))],
                  ra |-> [st.ra EXCEPT !.related_symmetric = @ + 1]]
            ELSE st
    ELSE st

\* _ensure_symmetric_relations: the body of the loop over data["related"]
SymRelatedEntry(g, base, lang, st, concept_id, related_id) ==
    IF related_id \in DOMAIN st.cs THEN
        LET related == st.cs[related_id].related
            related_found == \E k \in 1..Len(related) : TargetId(related[k]) = concept_id
        IN  IF ~related_found
            THEN [cs |-> [st.cs EXCEPT ![related_id].related =
                              Append(@, RelationEntry(g, base, concept_id, lang))],
                  ra |-> [st.ra EXCEPT !.related_symmetric = @ + 1]]
            ELSE st
    ELSE st

\* SymBroaderLoop that leaves the loop after the first broader entry
SymBroaderLoop_FirstOnly(g, base, lang, st, concept_id, i) ==
    IF i > Len(st.cs[concept_id].broaderConcept) THEN st
    ELSE SymBroaderEntry(g, base, lang, st, concept_id,
                         TargetId(st.cs[concept_id].broaderConcept[i]))

RECURSIVE SymBroaderLoop(_, _, _, _, _, _)
\* for broader_relation in data["broaderConcept"], from position i of the list
SymBroaderLoop(g, base, lang, st, concept_id, i) ==
    IF i > Len(st.cs[concept_id].broaderConcept) THEN st
    ELSE SymBroaderLoop(g, base, lang,
             SymBroaderEntry(g, base, lang, st, concept_id,
                             TargetId(st.cs[concept_id].broaderConcept[i])),
             concept_id, i + 1)

RECURSIVE SymRelatedLoop_DropsAbsent(_, _, _, _, _, _)
\* SymRelatedLoop that deletes from the list the entries whose target is not
\* in the concept set
SymRelatedLoop_DropsAbsent(g, base, lang, st, concept_id, i) ==
    IF i > Len(st.cs[concept_id].related) THEN st
    ELSE IF TargetId(st.cs[concept_id].related[i]) \notin DOMAIN st.cs
    THEN SymRelatedLoop_DropsAbsent(g, base, lang,
             [st EXCEPT !.cs[concept_id].related =
                 SubSeq(@, 1, i - 1) \o SubSeq(@, i + 1, Len(@))],
             concept_id, i)
    ELSE SymRelatedLoop_DropsAbsent(g, base, lang,
             SymRelatedEntry(g, base, lang, st, concept_id,
                             TargetId(st.cs[concept_id].related[i])),
             concept_id, i + 1)

RECURSIVE SymRelatedLoop(_, _, _, _, _, _)
\* for related_relation in data["related"], from position i of the list
SymRelatedLoop(g, base, lang, st, concept_id, i) ==
    IF i > Len(st.cs[concept_id].related) THEN st
    ELSE SymRelatedLoop(g, base, lang,
             SymRelatedEntry(g, base, lang, st, concept_id,
                             TargetId(st.cs[concept_id].related[i])),
             concept_id, i + 1)

RECURSIVE SymConcepts_SkipLast(_, _, _, _, _)
\* SymConcepts that stops before the last concept id
SymConcepts_SkipLast(g, base, lang, st, ids) ==
    IF Len(ids) <= 1 THEN st
    ELSE SymConcepts_SkipLast(g, base, lang,
             SymRelatedLoop(g, base, lang,
                 SymBroaderLoop(g, base, lang, st, ids[1], 1), ids[1], 1),
             Tail(ids))

RECURSIVE SymConcepts(_, _, _, _, _)
\* for concept_id in concept_ids
SymConcepts(g, base, lang, st, ids) ==
    IF Len(ids) = 0 THEN st
    ELSE SymConcepts(g, base, lang,
             SymRelatedLoop(g, base, lang,
                 SymBroaderLoop(g, base, lang, st, ids[1], 1), ids[1], 1),
             Tail(ids))

NoRelationsAdded ==
    [broader_from_narrower |-> 0, narrower_from_broader |-> 0, related_symmetric |-> 0]

\* the targets of a list of relation entries
TargetIds(relations) == {TargetId(relations[k]) : k \in 1..Len(relations)}

\* ensure_symmetric_relations followed by the inverse closure: a broader entry
\* for every narrower entry that has none, counted in broader_from_narrower
ensure_symmetric_relations_BothWays(g, base, lang, cs, ids) ==
    LET st == SymConcepts(g, base, lang, [cs |-> cs, ra |-> NoRelationsAdded], ids)
        Missing(a) == {b \in DOMAIN st.cs :
                          /\ a \in TargetIds(st.cs[b].narrowerConcept)
                          /\ b \notin TargetIds(st.cs[a].broaderConcept)}
        Entries(a) == LET q == Sorted(Missing(a))
                      IN  [i \in 1..Len(q) |-> RelationEntry(g, base, q[i], lang)]
        Sum(f, S) == LET RECURSIVE Go(_)
                         Go(T) == IF T = {} THEN 0
                                  ELSE LET x == CHOOSE x \in T : TRUE
                                       IN  f[x] + Go(T \ {x})
                     IN  Go(S)
    IN  [cs |-> [a \in DOMAIN st.cs |->
                    [st.cs[a] EXCEPT !.broaderConcept = @ \o Entries(a)]],
         ra |-> [st.ra EXCEPT !.broader_from_narrower =
                    Sum([a \in DOMAIN st.cs |-> Cardinality(Missing(a))], DOMAIN st.cs)]]

\* SKOSExtractor._ensure_symmetric_relations
ensure_symmetric_relations(g, base, lang, cs, ids) ==
    SymConcepts(g, base, lang, [cs |-> cs, ra |-> NoRelationsAdded], ids)


----------------------------------------------------------------------------
(* The statistics of a language *)

\* sum(1 for c in concepts.values() if c[f])
ConceptsWith(cs, f) == Cardinality({c \in DOMAIN cs : Len(cs[c][f]) > 0})

\* _calculate_statistics: duplicate_labels_found
duplicate_labels_found(labels) ==
    Cardinality({label \in DOMAIN labels :
                    /\ Contains(label, "_")
                    /\ LET parts == Split(label, "_")
                       IN  IsDigit(parts[Len(parts)])})

\* SKOSExtractor._calculate_statistics
calculate_statistics(cs, labels, ra) ==
    [total_concepts |-> Cardinality(DOMAIN cs),
     total_labels |-> Cardinality(DOMAIN labels),
     concepts_with_broader |-> ConceptsWith(cs, "broaderConcept"),
     concepts_with_narrower |-> ConceptsWith(cs, "narrowerConcept"),
     concepts_with_related |-> ConceptsWith(cs, "related"),
     concepts_with_alt_labels |-> ConceptsWith(cs, "altLabel"),
     concepts_with_definitions |-> ConceptsWith(cs, "definition"),
     concepts_with_notes |->
         Cardinality({c \in DOMAIN cs : \E k \in 1..Len(NoteFields) : Len(cs[c][NoteFields[k]]) > 0}),
     duplicate_labels_found |-> duplicate_labels_found(labels),
     relations_added |-> ra]

----------------------------------------------------------------------------
(* Loading the graph and reading the scheme metadata *)

\* _load_graph: the formats tried after the requested one, in this order
Formats == <<"turtle", "xml", "n3", "nt">>

\* SKOSExtractor._load_graph: the format whose parse is returned, "None" when
\* the function ends without a return statement, or the exception raised
load_graph(file, fmt) ==
    IF ~file.exists THEN "FileNotFoundError"
    ELSE IF fmt \in file.parses THEN fmt
    ELSE LET Other(f) == f # fmt
             formats == SelectSeq(Formats, Other)
             hits == {i \in 1..Len(formats) : formats[i] \in file.parses}
         IN  IF hits = {} THEN "None"
             ELSE formats[CHOOSE i \in hits : \A j \in hits : i <= j]

ConceptScheme == Ref(<<"s","k","o","s",":","C","o","n","c","e","p","t","S","c","h","e","m","e">>)

\* list(graph.subjects(predicate=RDF.type, object=skos.ConceptScheme))
SchemeSubjects(g) ==
    LET Match(t) == t.p = "rdf:type" /\ t.o = ConceptScheme
        hits == SelectSeq(g, Match)
    IN  [i \in 1..Len(hits) |-> hits[i].s]

\* d[k] = v
Put(d, k, v) == [x \in (DOMAIN d) \cup {k} |-> IF x = k THEN v ELSE d[x]]

NoLangKey == <<"n","o","-","l","a","n","g">>

\* title.language or "no-lang"
LangKey(o) == IF o.lang = None \/ o.lang = <<>> THEN NoLangKey ELSE o.lang

RECURSIVE PutTexts(_, _)
\* _extract_metadata: the literals among objs stored under their language keys
PutTexts(objs, d) ==
    IF Len(objs) = 0 THEN d
    ELSE PutTexts(Tail(objs),
                  IF IsLiteral(objs[1]) THEN Put(d, LangKey(objs[1]), objs[1].text) ELSE d)

RECURSIVE SchemeTexts(_, _, _, _)
\* _extract_metadata: the title or description loops over the schemes, for
\* the two predicates preds
SchemeTexts(g, schemes, preds, d) ==
    IF Len(schemes) = 0 THEN d
    ELSE SchemeTexts(g, Tail(schemes), preds,
             PutTexts(Objects(g, schemes[1], preds[1]) \o Objects(g, schemes[1], preds[2]), d))

RECURSIVE SchemeValue_LastObject(_, _, _, _)
\* SchemeValue without the break: the last object of a scheme is kept
SchemeValue_LastObject(g, schemes, p, value) ==
    IF Len(schemes) = 0 THEN value
    ELSE LET objs == Objects(g, schemes[1], p)
         IN  SchemeValue_LastObject(g, Tail(schemes), p,
                 IF Len(objs) > 0 THEN objs[Len(objs)].text ELSE value)

RECURSIVE SchemeValue(_, _, _, _)
\* _extract_metadata: the creator, created or modified loop over the schemes
\* (for x in objects: metadata[...] = str(x); break)
SchemeValue(g, schemes, p, value) ==
    IF Len(schemes) = 0 THEN value
    ELSE LET objs == Objects(g, schemes[1], p)
         IN  SchemeValue(g, Tail(schemes), p, IF Len(objs) > 0 THEN objs[1].text ELSE value)

\* SKOSExtractor._extract_metadata
extract_metadata(g, base, langs) ==
    LET schemes == SchemeSubjects(g)
    IN  [base_uri |-> base,
         available_languages |-> langs,
         title |-> SchemeTexts(g, schemes, <<"dc:title", "dcterms:title">>, <<>>),
         description |-> SchemeTexts(g, schemes,
                                     <<"dc:description", "dcterms:description">>, <<>>),
         creator |-> SchemeValue(g, schemes, "dcterms:creator", None),
         created |-> SchemeValue(g, schemes, "dcterms:created", None),
         modified |-> SchemeValue(g, schemes, "dcterms:modified", None)]

----------------------------------------------------------------------------
(* The input graphs *)

UA == <<"h","t","t","p",":","/","/","e","/","a">>
UB == <<"h","t","t","p",":","/","/","e","/","b">>
UC == <<"h","t","t","p",":","/","/","e","/","c">>

X == <<"X">>
Y == <<"Y">>
XY == <<"X", ",", " ", ",", "Y">>      \* "X, ,Y"

Nodes == <<UA, UB, UC>>
RelationPredicates == <<"broader", "narrower", "related">>

\* a relation graph always holds these two concepts
RelSkeleton ==
    << Triple(UA, "prefLabel", Lit(<<"A">>, EN)),
       Triple(UB, "prefLabel", Lit(<<"B">>, IT)) >>

\* the triples a relation graph may hold besides: every relation of a to a
\* node, every relation of b to a or b, one relation of c, and a literal or a
\* non-literal preferred label of c
RelUniverse ==
    [k \in 1..9 |->
        Triple(UA, RelationPredicates[((k - 1) \div 3) + 1], Ref(Nodes[((k - 1) % 3) + 1]))]
    \o [k \in 1..6 |->
        Triple(UB, RelationPredicates[((k - 1) \div 2) + 1], Ref(Nodes[((k - 1) % 2) + 1]))]
    \o << Triple(UC, "related", Ref(UA)),
          Triple(UC, "prefLabel", Lit(<<"C">>, None)),
          Triple(UC, "prefLabel", Ref(UA)) >>

\* the triples a label graph may hold
LitUniverse ==
    << Triple(UA, "prefLabel", Lit(X, EN)),
       Triple(UB, "prefLabel", Lit(X, EN)),
       Triple(UA, "prefLabel", Lit(Y, IT)),
       Triple(UA, "prefLabel", Lit(Y, None)),
       Triple(UB, "prefLabel", Lit(Y, None)),
       Triple(UA, "prefLabel", Lit(XY, EN)),
       Triple(UA, "prefLabel", Ref(UB)),
       Triple(UA, "altLabel", Lit(X, IT)),
       Triple(UA, "altLabel", Lit(Y, None)),
       Triple(UB, "altLabel", Lit(Y, None)),
       Triple(UA, "altLabel", Lit(XY, None)),
       Triple(UA, "hiddenLabel", Lit(X, None)),
       Triple(UA, "hiddenLabel", Lit(XY, IT)),
       Triple(UA, "definition", Lit(X, IT)),
       Triple(UA, "note", Lit(X, IT)),
       Triple(UA, "scopeNote", Lit(Y, None)),
       Triple(UA, "historyNote", Lit(X, EN)),
       Triple(UA, "example", Lit(Y, IT)),
       Triple(UA, "editorialNote", Lit(X, None)) >>

RECURSIVE SubsetsUpTo(_, _)
\* the subsets of S of at most k elements
SubsetsUpTo(S, k) ==
    IF k = 0 THEN {{}}
    ELSE LET smaller == SubsetsUpTo(S, k - 1)
         IN  smaller \cup {I \cup {x} : I \in smaller, x \in S}

\* the triples of U at the positions I, in the order of U
Pick(U, I) ==
    LET Chosen(k) == k \in I
        ks == SelectSeq([k \in 1..Len(U) |-> k], Chosen)
    IN  [n \in 1..Len(ks) |-> U[ks[n]]]

\* the stores the model runs extract on, each in two iteration orders
RelGraphs ==
    LET gs == {RelSkeleton \o Pick(RelUniverse, I) :
                  I \in SubsetsUpTo(1..Len(RelUniverse), MaxEdges)}
    IN  gs \cup {Reverse(g) : g \in gs}

LitGraphs ==
    LET gs == {Pick(LitUniverse, I) : I \in SubsetsUpTo(1..Len(LitUniverse), MaxLits)}
    IN  gs \cup {Reverse(g) : g \in gs}

\* concepts under three URI schemes: http (UA), ftp and urn
UF == <<"f","t","p",":","/","/","f","/","z">>
UN == <<"u","r","n",":","n">>

\* a base URI given to SKOSExtractor(base_uri=...)
UE == <<"h","t","t","p",":","/","/","e","/">>

\* the triples a URI-scheme graph may hold: preferred labels (one of them
\* empty) and relations between concepts of different schemes
UriUniverse ==
    << Triple(UA, "prefLabel", Lit(<<"A">>, EN)),
       Triple(UF, "prefLabel", Lit(<<"Z">>, EN)),
       Triple(UN, "prefLabel", Lit(<<"N">>, EN)),
       Triple(UN, "prefLabel", Lit(<<>>, EN)),
       Triple(UA, "broader", Ref(UF)),
       Triple(UA, "related", Ref(UF)),
       Triple(UF, "related", Ref(UA)),
       Triple(UA, "related", Ref(UN)),
       Triple(UF, "broader", Ref(UA)) >>

UriGraphs ==
    LET gs == {Pick(UriUniverse, I) : I \in SubsetsUpTo(1..Len(UriUniverse), MaxUriTriples)}
    IN  gs \cup {Reverse(g) : g \in gs}

\* SKOSExtractor.__init__: the base_uri argument, None by default
BaseUriArguments == {None, UE}

\* two concept schemes
US == <<"h","t","t","p",":","/","/","e","/","s">>
UT == <<"h","t","t","p",":","/","/","e","/","t">>

\* a scheme graph always holds the two schemes
MetaSkeleton ==
    << Triple(US, "rdf:type", ConceptScheme),
       Triple(UT, "rdf:type", ConceptScheme) >>

\* the metadata triples a scheme graph may hold
MetaUniverse ==
    << Triple(US, "dcterms:creator", Lit(X, None)),
       Triple(US, "dcterms:creator", Lit(Y, None)),
       Triple(UT, "dcterms:creator", Ref(UA)),
       Triple(US, "dcterms:created", Lit(<<"1">>, None)),
       Triple(UT, "dcterms:created", Lit(<<"2">>, None)),
       Triple(US, "dcterms:modified", Lit(<<"1">>, None)),
       Triple(UT, "dcterms:modified", Lit(<<"2">>, None)),
       Triple(US, "dcterms:title", Lit(X, EN)),
       Triple(UT, "dc:title", Lit(Y, EN)),
       Triple(US, "dc:description", Lit(X, None)),
       Triple(UT, "dcterms:description", Lit(Y, <<>>)) >>

MetaGraphs ==
    LET gs == {MetaSkeleton \o Pick(MetaUniverse, I) :
                  I \in SubsetsUpTo(1..Len(MetaUniverse), MaxMeta)}
    IN  gs \cup {Reverse(g) : g \in gs}

\* the stores of the files whose loading is varied
LoadGraphs ==
    { << Triple(UA, "prefLabel", Lit(X, EN)) >>,
      << Triple(UA, "prefLabel", Lit(X, EN)),
         Triple(UB, "prefLabel", Lit(Y, EN)),
         Triple(UA, "broader", Ref(UB)) >> }

\* a file that exists and parses under the default format
GoodFile == [exists |-> TRUE, parses |-> {"turtle"}]

\* the files extract may be given: missing, or parsing under some of the formats
InputFiles ==
    {f \in [exists : BOOLEAN, parses : SUBSET Range(Formats)] : f.exists \/ f.parses = {}}

\* the file_format argument: a format of the fallback list or another one
RequestedFormats == Range(Formats) \cup {"json-ld"}

----------------------------------------------------------------------------
(* SKOSExtractor.extract *)

EmptyDict == <<>>

\* the position extract goes to when it turns to the language at position pos
EnterLanguage(g, langs, pos) ==
    IF pos > Len(langs) THEN "finish"
    ELSE IF Len(Subjects(g, "prefLabel")) = 0 THEN "finalize"
    ELSE "build"

\* the language being processed
lang == languages[lang_pos]

\* nothing has been loaded, extracted or inserted yet
NotStarted ==
    /\ loaded = "pending"
    /\ languages = <<>>
    /\ lang_pos = 0
    /\ subj_pos = 0
    /\ concepts = EmptyDict
    /\ concept_ids = <<>>
    /\ labels_to_concept = EmptyDict
    /\ relations_added = NoRelationsAdded
    /\ total_relations_added = NoRelationsAdded
    /\ metadata = EmptyDict
    /\ files = EmptyDict
    /\ warnings = <<>>
    /\ labels_dict = EmptyDict
    /\ hist = <<>>

\* a new extractor and the arguments of its first extract call
Init ==
    /\ \/ /\ graph \in RelGraphs \cup LitGraphs \cup MetaGraphs
          /\ base_uri = None
          /\ input_file = GoodFile
          /\ file_format = "turtle"
       \/ /\ graph \in UriGraphs
          /\ base_uri \in BaseUriArguments
          /\ input_file = GoodFile
          /\ file_format = "turtle"
       \/ /\ graph \in LoadGraphs
          /\ base_uri = None
          /\ input_file \in InputFiles
          /\ file_format \in RequestedFormats
    /\ calls = 1
    /\ pc = "load"
    /\ NotStarted

\* extract, line 75: self.graph = self._load_graph(input_file, file_format)
Load ==
    /\ pc = "load"
    /\ loaded' = load_graph(input_file, file_format)
    /\ pc' = IF loaded' = "FileNotFoundError" THEN "error" ELSE "start"
    /\ UNCHANGED <<graph, base_uri, languages, lang_pos, subj_pos, concepts,
                   concept_ids, labels_to_concept, relations_added,
                   total_relations_added, metadata, files, warnings,
                   labels_dict, hist, callVars>>

\* extract, lines 76-95: len(self.graph), which raises TypeError when
\* self.graph is None; then the base URI, the languages and the metadata
Start ==
    /\ pc = "start"
    /\ IF loaded = "None"
       THEN /\ pc' = "error"
            /\ UNCHANGED <<base_uri, languages, total_relations_added, lang_pos,
                           subj_pos, metadata>>
       ELSE /\ base_uri' = IF base_uri = None \/ base_uri = <<>>
                           THEN detect_base_uri(graph) ELSE base_uri
            /\ languages' = detect_languages(graph)
            /\ metadata' = extract_metadata(graph, base_uri', languages')
            /\ total_relations_added' = NoRelationsAdded
            /\ lang_pos' = 1
            /\ subj_pos' = 1
            /\ pc' = EnterLanguage(graph, languages', 1)
    /\ UNCHANGED <<graph, concepts, concept_ids, labels_to_concept, relations_added,
                   files, warnings, labels_dict, hist, callVars, loaded>>

\* _process_language: one iteration of the loop over graph.subjects(prefLabel)
BuildConcept ==
    /\ pc = "build"
    /\ LET subjects == Subjects(graph, "prefLabel")
           s == subjects[subj_pos]
           concept_id == uri_to_id(s, base_uri)
           ids1 == IF concept_id \in DOMAIN concepts THEN concept_ids
                   ELSE Append(concept_ids, concept_id)
           cs1 == [x \in (DOMAIN concepts) \cup {concept_id} |->
                      IF x = concept_id THEN NewConcept ELSE concepts[x]]
           l == extract_labels(graph, s, concept_id, lang, cs1, labels_to_concept)
           NotDropped(x) == x \in DOMAIN l.cs
           r == extract_relations(graph, s, concept_id, base_uri, l.cs)
           n == extract_notes(graph, s, concept_id, lang, r.cs)
       IN  /\ labels_to_concept' = l.labels
           /\ concept_ids' = SelectSeq(ids1, NotDropped)
           /\ concepts' = n.cs
           /\ pc' = IF r.err \/ n.err THEN "error"
                    ELSE IF subj_pos = Len(subjects) THEN "finalize"
                    ELSE "build"
           /\ subj_pos' = subj_pos + 1
    /\ UNCHANGED <<graph, base_uri, languages, lang_pos, relations_added,
                   total_relations_added, files, warnings, labels_dict, hist,
                   callVars, loaded, metadata>>

\* the ids in the relation sets of the concepts
RelationTargets(cs) ==
    UNION {cs[c][RelationFields[k]] : c \in DOMAIN cs, k \in 1..Len(RelationFields)}

\* the orders in which a set can be iterated
Orders(S) == {q \in [1..Cardinality(S) -> S] : Range(q) = S}

\* _process_language: _finalize_concepts
Finalize ==
    /\ pc = "finalize"
    /\ \E order \in Orders(RelationTargets(concepts)) :
           concepts' = finalize_concepts(graph, base_uri, lang, concepts, order)
    /\ pc' = "symmetrize"
    /\ UNCHANGED <<graph, base_uri, languages, lang_pos, subj_pos, concept_ids,
                   labels_to_concept, relations_added, total_relations_added,
                   files, warnings, labels_dict, hist,
                   callVars, loaded, metadata>>

\* _process_language: _ensure_symmetric_relations
Symmetrize ==
    /\ pc = "symmetrize"
    /\ LET st == ensure_symmetric_relations(graph, base_uri, lang, concepts, concept_ids)
       IN  /\ concepts' = st.cs
           /\ relations_added' = st.ra
    /\ pc' = "save"
    /\ UNCHANGED <<graph, base_uri, languages, lang_pos, subj_pos, concept_ids,
                   labels_to_concept, total_relations_added, files, warnings,
                   labels_dict, hist,
                   callVars, loaded, metadata>>

\* SkipLanguage that records no warning
SkipLanguage_NoWarning ==
    /\ pc = "save"
    /\ DOMAIN concepts = {}
    /\ lang_pos' = lang_pos + 1
    /\ subj_pos' = 1
    /\ concepts' = EmptyDict
    /\ concept_ids' = <<>>
    /\ labels_to_concept' = EmptyDict
    /\ relations_added' = NoRelationsAdded
    /\ pc' = EnterLanguage(graph, languages, lang_pos + 1)
    /\ UNCHANGED <<graph, base_uri, languages, total_relations_added, files,
                   warnings, labels_dict, hist,
                   callVars, loaded, metadata>>

\* extract, lines 101-103: no concepts for the language
SkipLanguage ==
    /\ pc = "save"
    /\ DOMAIN concepts = {}
    /\ warnings' = Append(warnings, lang)
    /\ lang_pos' = lang_pos + 1
    /\ subj_pos' = 1
    /\ concepts' = EmptyDict
    /\ concept_ids' = <<>>
    /\ labels_to_concept' = EmptyDict
    /\ relations_added' = NoRelationsAdded
    /\ pc' = EnterLanguage(graph, languages, lang_pos + 1)
    /\ UNCHANGED <<graph, base_uri, languages, total_relations_added, files,
                   labels_dict, hist,
                   callVars, loaded, metadata>>

\* extract, lines 105-117: save the files of the language, add up the counters
\* and calculate the statistics of the language (all_stats[lang])
SaveLanguage ==
    /\ pc = "save"
    /\ DOMAIN concepts # {}
    /\ files' = files @@ (lang :> [concepts |-> concepts,
                                    labels_to_concept |-> labels_to_concept,
                                    relations_added |-> relations_added,
                                    statistics |-> calculate_statistics(
                                        concepts, labels_to_concept, relations_added)])
    /\ total_relations_added' =
           [key \in DOMAIN total_relations_added |->
               total_relations_added[key] + relations_added[key]]
    /\ lang_pos' = lang_pos + 1
    /\ subj_pos' = 1
    /\ concepts' = EmptyDict
    /\ concept_ids' = <<>>
    /\ labels_to_concept' = EmptyDict
    /\ relations_added' = NoRelationsAdded
    /\ pc' = EnterLanguage(graph, languages, lang_pos + 1)
    /\ UNCHANGED <<graph, base_uri, languages, warnings, labels_dict, hist,
                   callVars, loaded, metadata>>

\* extract, lines 119-135: write the metadata and return the result
Finish ==
    /\ pc = "finish"
    /\ pc' = "done"
    /\ UNCHANGED <<graph, base_uri, languages, lang_pos, subj_pos, concepts,
                   concept_ids, labels_to_concept, relations_added,
                   total_relations_added, files, warnings, labels_dict, hist,
                   callVars, loaded, metadata>>

Next ==
    \/ Load
    \/ Start
    \/ BuildConcept
    \/ Finalize
    \/ Symmetrize
    \/ SkipLanguage
    \/ SaveLanguage
    \/ Finish

Spec == Init /\ [][Next]_vars

TypeOK ==
    pc \in {"load", "start", "build", "finalize", "symmetrize", "save", "finish", "done",
            "error"}


----------------------------------------------------------------------------
(* The relation invariants of the concept files *)

\* the concept set written for language L
ConceptsOf(L) == files[L].concepts

\* relation list f of concept a in language L has an entry whose target id is b
HasEntry(L, a, f, b) == b \in TargetIds(ConceptsOf(L)[a][f])

\* the source graph states relation p from the concept with id a to the one with id b
SourceStates(a, p, b) ==
    \E i \in 1..Len(graph) :
        /\ graph[i].p = p
        /\ uri_to_id(graph[i].s, base_uri) = a
        /\ uri_to_id(graph[i].o.text, base_uri) = b

\* C1: after extract has finished, in every language, whenever A and B are both
\* in the concept set and A.broaderConcept has an entry with target B, then
\* B.narrowerConcept has an entry with target A.
C1_BroaderImpliesNarrower ==
    pc = "done" =>
        \A L \in DOMAIN files : \A a, b \in DOMAIN ConceptsOf(L) :
            HasEntry(L, a, "broaderConcept", b) => HasEntry(L, b, "narrowerConcept", a)

\* C1 happens: a broader edge that the source does not state as narrower has
\* been closed in a finished run
C1_Witness ==
    /\ pc = "done"
    /\ \E L \in DOMAIN files : \E a, b \in DOMAIN ConceptsOf(L) :
           /\ a # b
           /\ HasEntry(L, a, "broaderConcept", b)
           /\ ~SourceStates(b, "narrower", a)
           /\ HasEntry(L, b, "narrowerConcept", a)

\* C2: after extract has finished, in every language and for all A and B in the
\* concept set (A = B included), A.related has an entry with target B if and
\* only if B.related has an entry with target A.
C2_RelatedSymmetric ==
    pc = "done" =>
        \A L \in DOMAIN files : \A a, b \in DOMAIN ConceptsOf(L) :
            HasEntry(L, a, "related", b) <=> HasEntry(L, b, "related", a)

\* C2 happens: a related edge stated on one side only is on both sides
C2_Witness ==
    /\ pc = "done"
    /\ \E L \in DOMAIN files : \E a, b \in DOMAIN ConceptsOf(L) :
           /\ a # b
           /\ SourceStates(a, "related", b)
           /\ ~SourceStates(b, "related", a)
           /\ HasEntry(L, a, "related", b)
           /\ HasEntry(L, b, "related", a)

\* C3: after extract has finished, in every language, whenever A and B are both
\* in the concept set and B.narrowerConcept has an entry with target A, then
\* A.broaderConcept has an entry with target B.
C3_NarrowerImpliesBroader ==
    pc = "done" =>
        \A L \in DOMAIN files : \A a, b \in DOMAIN ConceptsOf(L) :
            HasEntry(L, b, "narrowerConcept", a) => HasEntry(L, a, "broaderConcept", b)

----------------------------------------------------------------------------
(* One label index under direct insertion: _add_label_to_concept applied to  *)
(* any sequence of (tagged label, concept id) pairs                          *)

\* the tagged labels inserted: "pX", and "pX_2", a label that reads like a suffixed key
IndexLabels == { <<"p", "X">>, <<"p", "X", "_", "2">> }

IndexConcepts == { <<"a">>, <<"b">>, <<"c">> }

InitIndex ==
    /\ input_file = GoodFile
    /\ file_format = "turtle"
    /\ loaded = "pending"
    /\ calls = 0
    /\ metadata = EmptyDict
    /\ graph = <<>>
    /\ base_uri = None
    /\ languages = <<>>
    /\ lang_pos = 0
    /\ subj_pos = 0
    /\ concepts = EmptyDict
    /\ concept_ids = <<>>
    /\ labels_to_concept = EmptyDict
    /\ relations_added = NoRelationsAdded
    /\ total_relations_added = NoRelationsAdded
    /\ files = EmptyDict
    /\ warnings = <<>>
    /\ pc = "idle"
    /\ labels_dict = EmptyDict
    /\ hist = <<>>

\* one call of _add_label_to_concept(label, concept_id, labels_dict)
AddLabel(label, concept_id) ==
    /\ pc = "idle"
    /\ Len(hist) < MaxInserts
    /\ LET r == add_label_to_concept(label, concept_id, labels_dict)
       IN  /\ labels_dict' = r.dict
           /\ hist' = Append(hist, [label |-> label, concept_id |-> concept_id,
                                    key |-> r.key, before |-> labels_dict])
    /\ UNCHANGED extractVars

NextIndex == \E label \in IndexLabels, concept_id \in IndexConcepts : AddLabel(label, concept_id)

SpecIndex == InitIndex /\ [][NextIndex]_vars

\* the index as insertion i left it
IndexAfter(i) == IF i < Len(hist) THEN hist[i + 1].before ELSE labels_dict

\* label_k
Suffixed(label, k) == label \o <<"_">> \o IntToStr(k)

\* the smallest k >= 2 for which label_k is not a key of dict
SmallestUnused(label, dict) ==
    CHOOSE k \in 2..(Cardinality(DOMAIN dict) + 2) :
        /\ Suffixed(label, k) \notin DOMAIN dict
        /\ \A j \in 2..(k - 1) : Suffixed(label, j) \in DOMAIN dict

\* insertion i is the first insertion of its tagged label
FirstOfLabel(i) == \A j \in 1..(i - 1) : hist[j].label # hist[i].label

\* insertion i is the first insertion of its (tagged label, concept id) pair
FirstOfPair(i) ==
    \A j \in 1..(i - 1) :
        ~(hist[j].label = hist[i].label /\ hist[j].concept_id = hist[i].concept_id)

\* C5: in one label index, after any sequence of insertions: no insertion
\* changes or removes the mapping of a key that exists; the first concept to
\* insert a tagged label holds the unsuffixed key; every other concept that
\* inserts the same tagged label gets label_k for the smallest k >= 2 unused at
\* that moment; so concepts that insert the same label have distinct keys.
C5_FirstWriterAndSuffixes ==
    /\ \A i \in 1..Len(hist) :
           \A k \in DOMAIN hist[i].before :
               k \in DOMAIN IndexAfter(i) /\ IndexAfter(i)[k] = hist[i].before[k]
    /\ \A i \in 1..Len(hist) :
           FirstOfLabel(i) =>
               /\ hist[i].label \in DOMAIN labels_dict
               /\ labels_dict[hist[i].label] = hist[i].concept_id
    /\ \A i \in 1..Len(hist) :
           (~FirstOfLabel(i) /\ FirstOfPair(i)) =>
               /\ hist[i].key = Suffixed(hist[i].label,
                                         SmallestUnused(hist[i].label, hist[i].before))
               /\ labels_dict[hist[i].key] = hist[i].concept_id
    /\ \A i, j \in 1..Len(hist) :
           (hist[i].label = hist[j].label /\ hist[i].concept_id # hist[j].concept_id)
               => hist[i].key # hist[j].key

\* C6: inserting a (tagged label, concept id) pair that was inserted before
\* leaves the index as it is and returns the key the first insertion returned.
C6_InsertIdempotent ==
    \A i, j \in 1..Len(hist) :
        (i < j /\ hist[i].label = hist[j].label /\ hist[i].concept_id = hist[j].concept_id)
            => /\ hist[j].key = hist[i].key
               /\ IndexAfter(j) = hist[j].before

\* C6 happens: a pair whose key is a suffixed one is inserted again after an
\* insertion of another pair that added a key
C6_Witness ==
    \E i, j \in 1..Len(hist) :
        /\ i + 1 < j
        /\ hist[i].label = hist[j].label
        /\ hist[i].concept_id = hist[j].concept_id
        /\ hist[i].key # hist[i].label
        /\ IndexAfter(i + 1) # hist[i + 1].before


----------------------------------------------------------------------------
(* The label and note contents of the files of a finished run *)

\* the label index written for language L
IndexOf(L) == files[L].labels_to_concept

\* the objects that the store holds under predicate p for the concept with id c
ObjectsOfConcept(c, p) ==
    {graph[i].o : i \in {j \in 1..Len(graph) :
                            graph[j].p = p /\ uri_to_id(graph[j].s, base_uri) = c}}

\* the texts of the literals among objs that are tagged L or untagged
TextsFor(objs, L) == {o.text : o \in {x \in objs : IsLiteral(x) /\ x.lang \in {L, None}}}

KindTag(p) == CASE p = "prefLabel" -> "p" [] p = "altLabel" -> "a" [] p = "hiddenLabel" -> "h"

\* key is a key of idx and maps to c
Keyed(idx, key, c) == key \in DOMAIN idx /\ idx[key] = c

\* the tagged label maps to c under its own key or, that key being held by
\* another concept, under the key with a numeric suffix
KeyedOrSuffixed(idx, tagged, c) ==
    \/ Keyed(idx, tagged, c)
    \/ /\ tagged \in DOMAIN idx
       /\ idx[tagged] # c
       /\ \E k \in 2..(Cardinality(DOMAIN idx) + 1) : Keyed(idx, Suffixed(tagged, k), c)

\* the non-empty, trimmed comma-separated tokens of a value
Tokens(value) ==
    LET parts == Split(value, ",")
    IN  {Strip(parts[i]) : i \in 1..Len(parts)} \ {<<>>}

\* what the index is to hold for a value: its tokens if it has a comma, else itself
TokensOrWhole(value) == IF Contains(value, ",") THEN Tokens(value) ELSE {value}

C8_PrefLabelPriority ==
    pc = "done" =>
        /\ \A k \in 1..Len(languages) : \A s \in Range(Subjects(graph, "prefLabel")) :
               LET L == languages[k]
                   c == uri_to_id(s, base_uri)
                   lits == {o \in Range(Objects(graph, s, "prefLabel")) : IsLiteral(o)}
                   tagged == {o.text : o \in {x \in lits : x.lang = L}}
                   untagged == {o.text : o \in {x \in lits : x.lang = None}}
                   present == L \in DOMAIN files /\ c \in DOMAIN ConceptsOf(L)
               IN  IF tagged # {} THEN present /\ ConceptsOf(L)[c].prefLabel \in tagged
                   ELSE IF untagged # {} THEN present /\ ConceptsOf(L)[c].prefLabel \in untagged
                   ELSE IF lits # {}
                        THEN present /\ ConceptsOf(L)[c].prefLabel \in {o.text : o \in lits}
                   ELSE ~present
        /\ \A L \in DOMAIN files : \A c \in DOMAIN ConceptsOf(L) :
               ConceptsOf(L)[c].prefLabel # None

\* C8 happens: a written concept has a prefLabel borrowed from another
\* language, its subject having no literal tagged L and no untagged one
C8_Witness ==
    /\ pc = "done"
    /\ \E L \in DOMAIN files : \E s \in Range(Subjects(graph, "prefLabel")) :
           LET lits == {o \in Range(Objects(graph, s, "prefLabel")) : IsLiteral(o)}
           IN  /\ uri_to_id(s, base_uri) \in DOMAIN ConceptsOf(L)
               /\ lits # {}
               /\ \A o \in lits : o.lang \notin {L, None}

\* the raw labels of concept c met while building language L: its prefLabel
\* and its admitted alternate and hidden labels, each with its kind tag
RawLabels(L, c) ==
    {[tag |-> "p", value |-> ConceptsOf(L)[c].prefLabel]}
    \cup {[tag |-> "a", value |-> v] : v \in TextsFor(ObjectsOfConcept(c, "altLabel"), L)}
    \cup {[tag |-> "h", value |-> v] : v \in TextsFor(ObjectsOfConcept(c, "hiddenLabel"), L)}

\* the raw label is in idx token by token and not as a whole
SplitInIndex(idx, raw, c) ==
    /\ \A t \in Tokens(raw.value) : KeyedOrSuffixed(idx, <<raw.tag>> \o t, c)
    /\ (<<raw.tag>> \o raw.value) \notin DOMAIN idx

\* C9, as stated: in a finished run, for every raw label of every kind
\* (preferred, alternate, hidden) whose value has a comma, the label index
\* holds one entry per non-empty trimmed token under the kind tag of the raw
\* label, and no entry for the unsplit value.
C9_CommaSplitAllKinds ==
    pc = "done" =>
        \A L \in DOMAIN files : \A c \in DOMAIN ConceptsOf(L) :
            \A raw \in RawLabels(L, c) :
                Contains(raw.value, ",") => SplitInIndex(IndexOf(L), raw, c)

\* C9, amended: in a finished run, for every raw alternate or hidden label
\* whose value has a comma, the label index holds one entry per non-empty
\* trimmed token under the kind tag (numerically suffixed when another concept
\* holds the key) and no entry for the unsplit value; a preferred label with a
\* comma is inserted whole, as the one entry of kind p of its concept.
C9_CommaSplitAltHidden ==
    pc = "done" =>
        \A L \in DOMAIN files : \A c \in DOMAIN ConceptsOf(L) :
            \A raw \in RawLabels(L, c) :
                Contains(raw.value, ",") =>
                    IF raw.tag = "p"
                    THEN /\ KeyedOrSuffixed(IndexOf(L), <<"p">> \o raw.value, c)
                         /\ Cardinality({key \in DOMAIN IndexOf(L) :
                                /\ key[1] = "p"
                                /\ IndexOf(L)[key] = c}) = 1
                    ELSE SplitInIndex(IndexOf(L), raw, c)

\* C9 happens: an alternate or hidden label with a comma and an empty token
\* has been indexed token by token
C9_Witness ==
    /\ pc = "done"
    /\ \E L \in DOMAIN files : \E c \in DOMAIN ConceptsOf(L) : \E raw \in RawLabels(L, c) :
           /\ raw.tag # "p"
           /\ Contains(raw.value, ",")
           /\ \E part \in Range(Split(raw.value, ",")) : Strip(part) = <<>>
           /\ \E t \in Tokens(raw.value) : Keyed(IndexOf(L), <<raw.tag>> \o t, c)

\* the keys of kind tag under which idx maps to c
KeysOf(idx, tag, c) == {key \in DOMAIN idx : key[1] = tag /\ idx[key] = c}

\* key is the tagged token, plain or numerically suffixed
IsKeyFor(key, tagged, idx) ==
    \/ key = tagged
    \/ \E k \in 2..(Cardinality(DOMAIN idx) + 1) : key = Suffixed(tagged, k)

\* the index entries of kind tag of concept c are those of the values, no
\* more and no fewer
IndexHoldsExactly(idx, tag, c, values) ==
    /\ \A v \in values : \A t \in TokensOrWhole(v) : KeyedOrSuffixed(idx, <<tag>> \o t, c)
    /\ \A key \in KeysOf(idx, tag, c) :
           \E v \in values : \E t \in TokensOrWhole(v) : IsKeyFor(key, <<tag>> \o t, idx)

\* C10: in a finished run, for every language L written and every concept of
\* L, the altLabel list, the alternate and hidden entries of the label index
\* and each of the six note lists hold exactly the literal values of their
\* predicate that are tagged L or untagged, whatever the language the
\* prefLabel comes from.
C10_TaggedOrUntaggedOnly ==
    pc = "done" =>
        \A L \in DOMAIN files : \A c \in DOMAIN ConceptsOf(L) :
            /\ Range(ConceptsOf(L)[c].altLabel) = TextsFor(ObjectsOfConcept(c, "altLabel"), L)
            /\ IndexHoldsExactly(IndexOf(L), "a", c,
                                 TextsFor(ObjectsOfConcept(c, "altLabel"), L))
            /\ IndexHoldsExactly(IndexOf(L), "h", c,
                                 TextsFor(ObjectsOfConcept(c, "hiddenLabel"), L))
            /\ \A k \in 1..Len(NoteFields) :
                   Range(ConceptsOf(L)[c][NoteFields[k]])
                       = TextsFor(ObjectsOfConcept(c, NoteFields[k]), L)

\* C10 happens: a written concept whose prefLabel is borrowed from another
\* language has an alternate label, a hidden label or a note of that other
\* language, which is not in its record
C10_Witness ==
    /\ pc = "done"
    /\ \E L \in DOMAIN files : \E c \in DOMAIN ConceptsOf(L) :
           /\ \A o \in ObjectsOfConcept(c, "prefLabel") : o.lang \notin {L, None}
           /\ \E p \in {"altLabel", "hiddenLabel"} \cup Range(NoteFields) :
                  \E o \in ObjectsOfConcept(c, p) :
                      /\ IsLiteral(o)
                      /\ o.lang \notin {L, None}
                      /\ \A x \in ObjectsOfConcept(c, p) : x.lang \in {L, None} => x.text # o.text

----------------------------------------------------------------------------
(* The labels of relation entries *)

\* the URIs of the store that the concept id stands for
UrisOfId(id) ==
    {u \in {graph[i].s : i \in 1..Len(graph)}
            \cup {graph[i].o.text : i \in {j \in 1..Len(graph) : ~IsLiteral(graph[j].o)}} :
        uri_to_id(u, base_uri) = id}

\* the relation entries written for language L
EntriesOf(L) ==
    UNION {Range(ConceptsOf(L)[c][f]) : c \in DOMAIN ConceptsOf(L), f \in Range(RelationFields)}

\* C11: in every written concept file, a relation entry's label is the
\* preferred label of its target in that language whenever the target has
\* one, and the target's id only when it has none, whatever the base URI
\* (detected or supplied) and the URI scheme of the target; when the target
\* is a concept of the file, the label is that concept's prefLabel.
C11_RelationLabels ==
    \A L \in DOMAIN files : \A e \in EntriesOf(L) :
        /\ \A u \in UrisOfId(e.id) :
               e.label = IF get_pref_label(graph, u, L) # None
                         THEN get_pref_label(graph, u, L) ELSE e.id
        /\ e.id \in DOMAIN ConceptsOf(L) => e.label = ConceptsOf(L)[e.id].prefLabel

----------------------------------------------------------------------------
(* The counters of the symmetrizer *)

RECURSIVE SumOver(_, _)
\* the sum of f over the set S
SumOver(f, S) ==
    IF S = {} THEN 0
    ELSE LET x == CHOOSE x \in S : TRUE
         IN  f[x] + SumOver(f, S \ {x})

\* the ordered pairs (A, B) of ids for which the source states p from A to B
\* but not q from B to A
OneSidedPairs(ids, p, q) ==
    {ab \in ids \X ids : SourceStates(ab[1], p, ab[2]) /\ ~SourceStates(ab[2], q, ab[1])}

\* the number of entries by which the lists of field f grow in this step
Appended(f) ==
    SumOver([c \in DOMAIN concepts |-> Len(concepts'[c][f]) - Len(concepts[c][f])],
            DOMAIN concepts)

\* C12: in every language, narrower_from_broader is the number of ordered
\* pairs (A, B) of the concept set with A broader B stated in the source and
\* B narrower A not stated, related_symmetric is the number of ordered pairs
\* with A related B stated and B related A not stated, and each counter is
\* the number of entries the symmetrizer appended to the lists of its kind.
C12_CountersCountOneSidedPairs ==
    /\ [](\A L \in DOMAIN files :
            LET ids == DOMAIN ConceptsOf(L)
                ra == files[L].relations_added
            IN  /\ ra.narrower_from_broader =
                       Cardinality(OneSidedPairs(ids, "broader", "narrower"))
                /\ ra.related_symmetric =
                       Cardinality(OneSidedPairs(ids, "related", "related")))
    /\ [][pc = "symmetrize" =>
            /\ relations_added'.narrower_from_broader = Appended("narrowerConcept")
            /\ relations_added'.related_symmetric = Appended("related")]_vars

\* C12 happens: a language has been written with two one-sided broader pairs
\* and a one-sided related pair counted
C12_Witness ==
    \E L \in DOMAIN files :
        /\ files[L].relations_added.narrower_from_broader = 2
        /\ files[L].relations_added.related_symmetric = 1
        /\ Cardinality(OneSidedPairs(DOMAIN ConceptsOf(L), "broader", "narrower")) = 2

----------------------------------------------------------------------------
(* The files written for the languages of the result *)

\* both files of language L have been written and each holds an entry
FilesWritten(L) ==
    /\ L \in DOMAIN files
    /\ DOMAIN files[L].concepts # {}
    /\ DOMAIN files[L].labels_to_concept # {}

\* some subject of the store has a literal preferred label
StoreHasConcept ==
    \E i \in 1..Len(graph) : graph[i].p = "prefLabel" /\ IsLiteral(graph[i].o)

\* C13 as stated: for every language in the languages list of the result
\* returned by extract, both output files have been written and each holds at
\* least one entry; the files written are those of the listed languages.
C13_FilesForEveryLanguage ==
    pc = "done" =>
        /\ \A L \in Range(languages) : FilesWritten(L)
        /\ DOMAIN files = Range(languages)

\* C13 amended: for every language in the languages list of the result,
\* either both output files have been written, each with at least one entry,
\* and no warning names the language, or the store has no subject with a
\* literal preferred label, a warning names the language and no file of it
\* is written; no file is written for a language that is not listed.
C13_FilesOrWarning ==
    pc = "done" =>
        /\ \A L \in Range(languages) :
               IF StoreHasConcept
               THEN FilesWritten(L) /\ L \notin Range(warnings)
               ELSE L \notin DOMAIN files /\ L \in Range(warnings)
        /\ DOMAIN files \subseteq Range(languages)

\* C13 happens: a run over two detected languages has returned with the files
\* of both written
C13_Witness ==
    /\ pc = "done"
    /\ Len(languages) = 2
    /\ \A L \in Range(languages) : FilesWritten(L)

----------------------------------------------------------------------------
(* detect_base_uri applied to stores of two or more concept subjects *)

UM == <<"u","r","n",":","m">>
UHA == <<"h","t","t","p",":","/","/","e","#","a","b">>
UHC == <<"h","t","t","p",":","/","/","e","#","a","c">>

\* the subject URIs of the stores
BaseSubjects == {UA, UB, UF, UN, UM, UHA, UHC}

\* the lists graph.subjects(predicate=prefLabel) may give: two to MaxSubjects
\* subjects, a subject once for each of its preferred labels, at least two
\* of them distinct
BaseSubjectLists ==
    {q \in UNION {[1..n -> BaseSubjects] : n \in 2..MaxSubjects} : Cardinality(Range(q)) >= 2}

InitBase ==
    /\ \E q \in BaseSubjectLists :
           graph = [i \in 1..Len(q) |-> Triple(q[i], "prefLabel", Lit(IntToStr(i), EN))]
    /\ base_uri = None
    /\ input_file = GoodFile
    /\ file_format = "turtle"
    /\ calls = 0
    /\ pc = "detect"
    /\ NotStarted

\* one call of detect_base_uri(graph)
DetectBase ==
    /\ pc = "detect"
    /\ base_uri' = detect_base_uri(graph)
    /\ pc' = "detected"
    /\ UNCHANGED <<graph, languages, lang_pos, subj_pos, concepts, concept_ids,
                   labels_to_concept, relations_added, total_relations_added,
                   metadata, files, warnings, labels_dict, hist, callVars, loaded>>

NextBase == DetectBase

SpecBase == InitBase /\ [][NextBase]_vars

\* p is a prefix of every string of S
IsCommonPrefix(p, S) == \A u \in S : StartsWith(u, p)

\* the longest common prefix of the strings of S
LongestCommonPrefix(S) ==
    LET u == CHOOSE u \in S : TRUE
        ns == {n \in 0..Len(u) : IsCommonPrefix(SubSeq(u, 1, n), S)}
    IN  SubSeq(u, 1, CHOOSE n \in ns : \A m \in ns : m <= n)

\* s ends in a separator
EndsInSeparator(s) == EndsWith(s, <<"/">>) \/ EndsWith(s, <<"#">>)

\* C14: for a store with two or more concept subjects, detect_base_uri
\* returns the longest common prefix of the subject strings cut after its last
\* '/' or '#': the result ends in '/' or '#' and is a prefix of every subject.
C14_BaseIsTrimmedCommonPrefix ==
    pc = "detected" =>
        LET S == Range(Subjects(graph, "prefLabel"))
            lcp == LongestCommonPrefix(S)
            cuts == {n \in 1..Len(lcp) : lcp[n] \in {"/", "#"}}
        IN  /\ EndsInSeparator(base_uri)
            /\ IsCommonPrefix(base_uri, S)
            /\ cuts # {}
            /\ base_uri = SubSeq(lcp, 1, CHOOSE n \in cuts : \A m \in cuts : m <= n)

----------------------------------------------------------------------------
(* The scheme metadata *)

\* the metadata fields with one value, and their predicates
SingleValued ==
    [creator |-> "dcterms:creator", created |-> "dcterms:created",
     modified |-> "dcterms:modified"]

\* the positions, in the order the schemes are gone through, of the schemes
\* that have a value for predicate p
SchemesWith(p) ==
    {i \in 1..Len(SchemeSubjects(graph)) : Len(Objects(graph, SchemeSubjects(graph)[i], p)) > 0}

\* the first value of the scheme at position i
FirstValueOf(i, p) == Objects(graph, SchemeSubjects(graph)[i], p)[1].text

\* C15 as stated: creator, created and modified each hold the first value
\* found while going through the schemes in order; a later scheme that also
\* has a value does not overwrite it.
C15_FirstSchemeWins ==
    metadata # EmptyDict =>
        \A f \in DOMAIN SingleValued :
            LET with == SchemesWith(SingleValued[f])
            IN  metadata[f] = IF with = {} THEN None
                              ELSE FirstValueOf(CHOOSE i \in with : \A j \in with : i <= j,
                                                SingleValued[f])

\* C15 amended: creator, created and modified each hold the first value of
\* the last scheme, in the order the schemes are gone through, that has a
\* value for the field (a later scheme with a value overwrites an earlier
\* one), and None when no scheme has one.
C15_LastSchemeWins ==
    metadata # EmptyDict =>
        \A f \in DOMAIN SingleValued :
            LET with == SchemesWith(SingleValued[f])
            IN  metadata[f] = IF with = {} THEN None
                              ELSE FirstValueOf(CHOOSE i \in with : \A j \in with : j <= i,
                                                SingleValued[f])

\* C15 happens: two schemes give different creators, and the metadata holds
\* the one of the scheme gone through last
C15_Witness ==
    /\ metadata # EmptyDict
    /\ Cardinality(SchemesWith("dcterms:creator")) = 2
    /\ FirstValueOf(1, "dcterms:creator") # FirstValueOf(2, "dcterms:creator")
    /\ metadata.creator = FirstValueOf(2, "dcterms:creator")

----------------------------------------------------------------------------
(* Loading *)

\* the positions in Formats of the formats, other than the requested one,
\* under which the input file parses
FallbackHits ==
    {k \in 1..Len(Formats) : Formats[k] # file_format /\ Formats[k] \in input_file.parses}

\* _load_graph has returned a value to extract
LoadReturned == loaded \in Range(Formats) \cup RequestedFormats \cup {"None"}

\* C16: when the file does not parse under the requested format, the loader
\* returns the graph of the first format of turtle, xml, n3, nt, the requested
\* one skipped, under which it parses; when it parses under no format, the
\* load step ends in an error outcome, returning nothing to extract, and no
\* output file is written.
C16_FallbackOrderAndFailure ==
    (loaded # "pending" /\ input_file.exists /\ file_format \notin input_file.parses) =>
        IF FallbackHits # {}
        THEN loaded = Formats[CHOOSE k \in FallbackHits : \A j \in FallbackHits : k <= j]
        ELSE ~LoadReturned /\ files = EmptyDict

----------------------------------------------------------------------------
(* Several extract calls on one extractor *)

\* the stores of the files given to the calls: concepts under http://e/,
\* one concept under ftp://f/, no concept, concepts under urn:
RunGraphs ==
    { << Triple(UA, "prefLabel", Lit(<<"A">>, EN)), Triple(UB, "prefLabel", Lit(<<"B">>, EN)) >>,
      << Triple(UF, "prefLabel", Lit(<<"Z">>, EN)) >>,
      << Triple(UA, "altLabel", Lit(X, EN)) >>,
      << Triple(UN, "prefLabel", Lit(<<"N">>, EN)), Triple(UM, "prefLabel", Lit(X, EN)) >> }

\* an extractor created without a base URI, and its first call
InitRuns ==
    /\ graph \in RunGraphs
    /\ base_uri = None
    /\ input_file = GoodFile
    /\ file_format = "turtle"
    /\ calls = 1
    /\ pc = "load"
    /\ NotStarted

\* extract is called again on the same extractor, with another input file and
\* output directory, after the call before has returned or raised
ExtractAgain ==
    /\ pc \in {"done", "error"}
    /\ calls < MaxCalls
    /\ calls' = calls + 1
    /\ graph' \in RunGraphs
    /\ loaded' = "pending"
    /\ languages' = <<>>
    /\ lang_pos' = 0
    /\ subj_pos' = 0
    /\ concepts' = EmptyDict
    /\ concept_ids' = <<>>
    /\ labels_to_concept' = EmptyDict
    /\ relations_added' = NoRelationsAdded
    /\ total_relations_added' = NoRelationsAdded
    /\ metadata' = EmptyDict
    /\ files' = EmptyDict
    /\ warnings' = <<>>
    /\ pc' = "load"
    /\ UNCHANGED <<base_uri, input_file, file_format, labels_dict, hist>>

NextRuns ==
    \/ Next
    \/ ExtractAgain

SpecRuns == InitRuns /\ [][NextRuns]_vars

\* the ids a new extractor gives the concepts of the store
FreshIds ==
    {uri_to_id(graph[i].s, detect_base_uri(graph)) :
        i \in {j \in 1..Len(graph) : graph[j].p = "prefLabel" /\ IsLiteral(graph[j].o)}}

\* C17: in every call of a sequence of extract calls on an extractor created
\* without a base URI, the base URI is the one a new extractor detects for
\* the call's input, and the concept files hold the ids a new extractor gives.
C17_NoCrossRunState ==
    pc \in {"build", "finalize", "symmetrize", "save", "finish", "done"} =>
        /\ base_uri = detect_base_uri(graph)
        /\ metadata.base_uri = detect_base_uri(graph)
        /\ \A L \in DOMAIN files : DOMAIN ConceptsOf(L) = FreshIds

----------------------------------------------------------------------------
(* The statistics of the label index *)

\* the keys that an insertion made by appending a suffix to its label
SuffixCreated ==
    {hist[i].key : i \in {j \in 1..Len(hist) :
                              /\ hist[j].key # hist[j].label
                              /\ hist[j].key \notin DOMAIN hist[j].before}}

\* C18: duplicate_labels_found, as the statistics calculate it from a label
\* index, is the number of keys of the index that were made by appending a
\* suffix on collision; a key that is a label ending in an underscore and
\* digits, inserted without collision, is not counted.
C18_DuplicatesAreSuffixedKeys ==
    duplicate_labels_found(labels_dict) = Cardinality(SuffixCreated)

----------------------------------------------------------------------------
(* The symmetrizer and the order of traversal *)

\* the symmetrizer applied to the finalized concepts in hand, traversed in order
SymmetrizedIn(order) == ensure_symmetric_relations(graph, base_uri, lang, concepts, order)

\* the counters of a result and the set of entries of each of its relation lists
EntriesAndCounters(r) ==
    [ra |-> r.ra,
     entries |-> [c \in DOMAIN r.cs |->
                     [k \in 1..Len(RelationFields) |-> Range(r.cs[c][RelationFields[k]])]]]

\* C19: for the finalized concept set of any language and any two orders of
\* traversal of its ids, the symmetrizer ends with the same set of entries in
\* every broaderConcept, narrowerConcept and related list and with the same
\* three counters.
C19_TraversalOrderIndependent ==
    pc = "symmetrize" =>
        Cardinality({EntriesAndCounters(SymmetrizedIn(order)) :
                        order \in Orders(DOMAIN concepts)}) = 1

\* C19 happens: two orders of traversal append their entries in different
\* orders, so that the lists differ while their entries are the same
C19_Witness ==
    /\ pc = "symmetrize"
    /\ \E o1, o2 \in Orders(DOMAIN concepts) :
           /\ SymmetrizedIn(o1).cs # SymmetrizedIn(o2).cs
           /\ SymmetrizedIn(o1).ra.related_symmetric = 2

----------------------------------------------------------------------------
(* The frame of the symmetrizer *)

\* list s is the beginning of list t
IsPrefix(s, t) == Len(s) <= Len(t) /\ SubSeq(t, 1, Len(s)) = s

\* the list in which the relation that an entry appended to list f comes from is stated
SourceField(f) == IF f = "narrowerConcept" THEN "broaderConcept" ELSE "related"

----------------------------------------------------------------------------
(* The concept sets of the languages of one run *)

\* the ids of the subjects of the store that have a literal preferred label
LabelledIds ==
    {uri_to_id(graph[i].s, base_uri) :
        i \in {j \in 1..Len(graph) : graph[j].p = "prefLabel" /\ IsLiteral(graph[j].o)}}

\* C21: when extract has returned, every detected language has the same set
\* of concept ids: the ids of the subjects that have a literal preferred
\* label in any language; a subject is in the concept set of one language if
\* and only if it is in that of every other detected language.
C21_SameConceptIdsInEveryLanguage ==
    pc = "done" =>
        /\ \A L \in DOMAIN files : DOMAIN ConceptsOf(L) = LabelledIds
        /\ \A L1, L2 \in Range(languages) :
               /\ L1 \in DOMAIN files <=> L2 \in DOMAIN files
               /\ (L1 \in DOMAIN files /\ L2 \in DOMAIN files) =>
                      DOMAIN ConceptsOf(L1) = DOMAIN ConceptsOf(L2)

\* C21 happens: a run over two languages has returned, and a concept whose
\* only preferred labels are tagged with one language is in the concept set
\* of the other
C21_Witness ==
    /\ pc = "done"
    /\ Cardinality(DOMAIN files) = 2
    /\ \E L \in DOMAIN files : \E c \in DOMAIN ConceptsOf(L) :
           /\ ObjectsOfConcept(c, "prefLabel") # {}
           /\ \A o \in ObjectsOfConcept(c, "prefLabel") :
                  IsLiteral(o) /\ o.lang \notin {L, None}

----------------------------------------------------------------------------
(* The label index against the concept set *)

\* the subject that BuildConcept is about to build has been built before
BuiltBefore ==
    LET subjects == Subjects(graph, "prefLabel")
    IN  \E k \in 1..(subj_pos - 1) : subjects[k] = subjects[subj_pos]

\* C22: in every language written, every value of the label index is an id
\* of the concept set and every concept of the set is the value of a key
\* with kind tag p; and building a subject that the store yields again (once
\* for each of its preferred-label triples) leaves the concept set, the
\* order of its ids and the label index as they were.
C22_IndexAgreesWithConcepts ==
    /\ [](\A L \in DOMAIN files :
            /\ \A key \in DOMAIN IndexOf(L) : IndexOf(L)[key] \in DOMAIN ConceptsOf(L)
            /\ \A c \in DOMAIN ConceptsOf(L) :
                   \E key \in DOMAIN IndexOf(L) : key[1] = "p" /\ IndexOf(L)[key] = c)
    /\ [][(pc = "build" /\ BuiltBefore) =>
            /\ concepts' = concepts
            /\ concept_ids' = concept_ids
            /\ labels_to_concept' = labels_to_concept
            /\ pc' # "error"]_vars

\* C22 happens: a language has been written from a store that yields a
\* subject twice, among two concepts that share a preferred label
C22_Witness ==
    /\ \E L \in DOMAIN files :
           /\ Cardinality(DOMAIN ConceptsOf(L)) = 2
           /\ \E k1, k2 \in DOMAIN IndexOf(L) :
                  k1 # k2 /\ k1[1] = "p" /\ k2[1] = "p" /\ IndexOf(L)[k1] # IndexOf(L)[k2]
    /\ \E i, j \in 1..Len(graph) :
           /\ i # j
           /\ graph[i].p = "prefLabel" /\ graph[j].p = "prefLabel"
           /\ graph[i].s = graph[j].s

====
